---- MODULE Spec2Model ----
(***************************************************************************)
(* A model of littlefish's timetool.py: timezone conversion between UTC    *)
(* and Europe/London, the display formatters, and the calendar arithmetic  *)
(* (working days, months).  Every function of the module is pure; the      *)
(* state records the last call: which function, its arguments, its result. *)
(***************************************************************************)
EXTENDS Integers, Sequences, FiniteSets, TLC

VARIABLES pc, num, time_in, flag, result, log, today,
          strftime_min_year, strftime_pad_year

vars == <<pc, num, time_in, flag, result, log, today,
          strftime_min_year, strftime_pad_year>>

\* the C library's strftime, fixed for a run
platform == <<strftime_min_year, strftime_pad_year>>

-----------------------------------------------------------------------------
(* Bounds of the explored inputs.                                          *)

FirstYear == 2023
NumYears == 2
MaxMonths == 14
MaxNumDays == 7
MaxBackDays == 2

Years == FirstYear..(FirstYear + NumYears - 1)

-----------------------------------------------------------------------------
(* Values: None, datetime.date, datetime.datetime (naive or tagged with a  *)
(* pytz tzinfo), str, and a raised exception.  One record shape for all.   *)

Val(k, y, mo, d, h, mi, s, us, tz, off, txt) ==
    [kind |-> k, year |-> y, month |-> mo, day |-> d, hour |-> h, minute |-> mi,
     second |-> s, microsecond |-> us, tzinfo |-> tz, utcoffset |-> off, text |-> txt]

NoneV == Val("None", 0, 0, 0, 0, 0, 0, 0, "None", 0, "")

DateV(y, mo, d) == Val("date", y, mo, d, 0, 0, 0, 0, "None", 0, "")

DateTimeV(y, mo, d, h, mi, s, us, tz, off) ==
    Val("datetime", y, mo, d, h, mi, s, us, tz, off, "")

StrV(txt) == Val("str", 0, 0, 0, 0, 0, 0, 0, "None", 0, txt)

RaiseV(exc) == Val("raise", 0, 0, 0, 0, 0, 0, 0, "None", 0, exc)

-----------------------------------------------------------------------------
(* The proleptic Gregorian calendar of datetime and calendar.              *)

IsLeap(y) == (y % 4 = 0) /\ ((y % 100 # 0) \/ (y % 400 = 0))

\* calendar.monthrange(year, month)[1]; also the largest day datetime accepts
DaysInMonth(y, mo) ==
    IF mo = 2 THEN (IF IsLeap(y) THEN 29 ELSE 28)
    ELSE IF mo \in {4, 6, 9, 11} THEN 30 ELSE 31

DaysBeforeYear(y) ==
    365 * (y - 1) + ((y - 1) \div 4) - ((y - 1) \div 100) + ((y - 1) \div 400)

RECURSIVE DaysBeforeMonth(_, _)
DaysBeforeMonth(y, mo) ==
    IF mo <= 1 THEN 0 ELSE DaysBeforeMonth(y, mo - 1) + DaysInMonth(y, mo - 1)

\* date.toordinal(): 0001-01-01 is day 1
ToOrdinal(v) == DaysBeforeYear(v.year) + DaysBeforeMonth(v.year, v.month) + v.day

\* date.weekday(): Monday is 0, Sunday is 6
Weekday(v) == (ToOrdinal(v) + 6) % 7

\* datetime's "date value out of range"
OverflowError == RaiseV("OverflowError")

\* v + datetime.timedelta(days=1); no date follows 9999-12-31
NextDay(v) ==
    IF v.day < DaysInMonth(v.year, v.month) THEN [v EXCEPT !.day = v.day + 1]
    ELSE IF v.month < 12 THEN [v EXCEPT !.month = v.month + 1, !.day = 1]
    ELSE IF v.year < 9999 THEN [v EXCEPT !.year = v.year + 1, !.month = 1, !.day = 1]
    ELSE OverflowError

\* v - datetime.timedelta(days=1); no date precedes 0001-01-01
PrevDay(v) ==
    IF v.day > 1 THEN [v EXCEPT !.day = v.day - 1]
    ELSE IF v.month > 1
         THEN [v EXCEPT !.month = v.month - 1, !.day = DaysInMonth(v.year, v.month - 1)]
    ELSE IF v.year > 1 THEN [v EXCEPT !.year = v.year - 1, !.month = 12, !.day = 31]
    ELSE OverflowError

\* v + datetime.timedelta(minutes=delta), for -1440 <= delta <= 1440
AddMinutes(v, delta) ==
    LET t == v.hour * 60 + v.minute + delta
        w == IF t < 0 THEN PrevDay(v) ELSE IF t >= 1440 THEN NextDay(v) ELSE v
        u == IF t < 0 THEN t + 1440 ELSE IF t >= 1440 THEN t - 1440 ELSE t
    IN IF w.kind = "raise" THEN w
       ELSE [w EXCEPT !.hour = u \div 60, !.minute = u % 60]

-----------------------------------------------------------------------------
(* pytz: utc and local = pytz.timezone('Europe/London').  A tzinfo of the  *)
(* zone is <<utcoffset, dst>> in minutes, rounded to the minute as pytz    *)
(* does (local mean time, -0:01:15, is -1).  pytz builds the zone from the *)
(* 32-bit table of the zone file: its first transition, from local mean    *)
(* time to GMT, is at the least 32-bit time (1901-12-13 20:45:52 UTC) and  *)
(* its last at 2037-10-25 01:00 UTC, after which the zone stays on GMT.    *)

LocalZone == "Europe/London"

\* the tzinfo before the first transition: local mean time
LocalMeanTime == <<0 - 1, 0>>

\* local._utc_transition_times with local._transition_info:
\* <<year, month, day, hour, minute, second (UTC), utcoffset, dst>>
LondonTransitions == <<
    <<1901, 12, 13, 20, 45, 52, 0, 0>>, <<1916, 5, 21, 2, 0, 0, 60, 60>>,
    <<1916, 10, 1, 2, 0, 0, 0, 0>>, <<1917, 4, 8, 2, 0, 0, 60, 60>>,
    <<1917, 9, 17, 2, 0, 0, 0, 0>>, <<1918, 3, 24, 2, 0, 0, 60, 60>>,
    <<1918, 9, 30, 2, 0, 0, 0, 0>>, <<1919, 3, 30, 2, 0, 0, 60, 60>>,
    <<1919, 9, 29, 2, 0, 0, 0, 0>>, <<1920, 3, 28, 2, 0, 0, 60, 60>>,
    <<1920, 10, 25, 2, 0, 0, 0, 0>>, <<1921, 4, 3, 2, 0, 0, 60, 60>>,
    <<1921, 10, 3, 2, 0, 0, 0, 0>>, <<1922, 3, 26, 2, 0, 0, 60, 60>>,
    <<1922, 10, 8, 2, 0, 0, 0, 0>>, <<1923, 4, 22, 2, 0, 0, 60, 60>>,
    <<1923, 9, 16, 2, 0, 0, 0, 0>>, <<1924, 4, 13, 2, 0, 0, 60, 60>>,
    <<1924, 9, 21, 2, 0, 0, 0, 0>>, <<1925, 4, 19, 2, 0, 0, 60, 60>>,
    <<1925, 10, 4, 2, 0, 0, 0, 0>>, <<1926, 4, 18, 2, 0, 0, 60, 60>>,
    <<1926, 10, 3, 2, 0, 0, 0, 0>>, <<1927, 4, 10, 2, 0, 0, 60, 60>>,
    <<1927, 10, 2, 2, 0, 0, 0, 0>>, <<1928, 4, 22, 2, 0, 0, 60, 60>>,
    <<1928, 10, 7, 2, 0, 0, 0, 0>>, <<1929, 4, 21, 2, 0, 0, 60, 60>>,
    <<1929, 10, 6, 2, 0, 0, 0, 0>>, <<1930, 4, 13, 2, 0, 0, 60, 60>>,
    <<1930, 10, 5, 2, 0, 0, 0, 0>>, <<1931, 4, 19, 2, 0, 0, 60, 60>>,
    <<1931, 10, 4, 2, 0, 0, 0, 0>>, <<1932, 4, 17, 2, 0, 0, 60, 60>>,
    <<1932, 10, 2, 2, 0, 0, 0, 0>>, <<1933, 4, 9, 2, 0, 0, 60, 60>>,
    <<1933, 10, 8, 2, 0, 0, 0, 0>>, <<1934, 4, 22, 2, 0, 0, 60, 60>>,
    <<1934, 10, 7, 2, 0, 0, 0, 0>>, <<1935, 4, 14, 2, 0, 0, 60, 60>>,
    <<1935, 10, 6, 2, 0, 0, 0, 0>>, <<1936, 4, 19, 2, 0, 0, 60, 60>>,
    <<1936, 10, 4, 2, 0, 0, 0, 0>>, <<1937, 4, 18, 2, 0, 0, 60, 60>>,
    <<1937, 10, 3, 2, 0, 0, 0, 0>>, <<1938, 4, 10, 2, 0, 0, 60, 60>>,
    <<1938, 10, 2, 2, 0, 0, 0, 0>>, <<1939, 4, 16, 2, 0, 0, 60, 60>>,
    <<1939, 11, 19, 2, 0, 0, 0, 0>>, <<1940, 2, 25, 2, 0, 0, 60, 60>>,
    <<1941, 5, 4, 1, 0, 0, 120, 120>>, <<1941, 8, 10, 1, 0, 0, 60, 60>>,
    <<1942, 4, 5, 1, 0, 0, 120, 120>>, <<1942, 8, 9, 1, 0, 0, 60, 60>>,
    <<1943, 4, 4, 1, 0, 0, 120, 120>>, <<1943, 8, 15, 1, 0, 0, 60, 60>>,
    <<1944, 4, 2, 1, 0, 0, 120, 120>>, <<1944, 9, 17, 1, 0, 0, 60, 60>>,
    <<1945, 4, 2, 1, 0, 0, 120, 120>>, <<1945, 7, 15, 1, 0, 0, 60, 60>>,
    <<1945, 10, 7, 2, 0, 0, 0, 0>>, <<1946, 4, 14, 2, 0, 0, 60, 60>>,
    <<1946, 10, 6, 2, 0, 0, 0, 0>>, <<1947, 3, 16, 2, 0, 0, 60, 60>>,
    <<1947, 4, 13, 1, 0, 0, 120, 120>>, <<1947, 8, 10, 1, 0, 0, 60, 60>>,
    <<1947, 11, 2, 2, 0, 0, 0, 0>>, <<1948, 3, 14, 2, 0, 0, 60, 60>>,
    <<1948, 10, 31, 2, 0, 0, 0, 0>>, <<1949, 4, 3, 2, 0, 0, 60, 60>>,
    <<1949, 10, 30, 2, 0, 0, 0, 0>>, <<1950, 4, 16, 2, 0, 0, 60, 60>>,
    <<1950, 10, 22, 2, 0, 0, 0, 0>>, <<1951, 4, 15, 2, 0, 0, 60, 60>>,
    <<1951, 10, 21, 2, 0, 0, 0, 0>>, <<1952, 4, 20, 2, 0, 0, 60, 60>>,
    <<1952, 10, 26, 2, 0, 0, 0, 0>>, <<1953, 4, 19, 2, 0, 0, 60, 60>>,
    <<1953, 10, 4, 2, 0, 0, 0, 0>>, <<1954, 4, 11, 2, 0, 0, 60, 60>>,
    <<1954, 10, 3, 2, 0, 0, 0, 0>>, <<1955, 4, 17, 2, 0, 0, 60, 60>>,
    <<1955, 10, 2, 2, 0, 0, 0, 0>>, <<1956, 4, 22, 2, 0, 0, 60, 60>>,
    <<1956, 10, 7, 2, 0, 0, 0, 0>>, <<1957, 4, 14, 2, 0, 0, 60, 60>>,
    <<1957, 10, 6, 2, 0, 0, 0, 0>>, <<1958, 4, 20, 2, 0, 0, 60, 60>>,
    <<1958, 10, 5, 2, 0, 0, 0, 0>>, <<1959, 4, 19, 2, 0, 0, 60, 60>>,
    <<1959, 10, 4, 2, 0, 0, 0, 0>>, <<1960, 4, 10, 2, 0, 0, 60, 60>>,
    <<1960, 10, 2, 2, 0, 0, 0, 0>>, <<1961, 3, 26, 2, 0, 0, 60, 60>>,
    <<1961, 10, 29, 2, 0, 0, 0, 0>>, <<1962, 3, 25, 2, 0, 0, 60, 60>>,
    <<1962, 10, 28, 2, 0, 0, 0, 0>>, <<1963, 3, 31, 2, 0, 0, 60, 60>>,
    <<1963, 10, 27, 2, 0, 0, 0, 0>>, <<1964, 3, 22, 2, 0, 0, 60, 60>>,
    <<1964, 10, 25, 2, 0, 0, 0, 0>>, <<1965, 3, 21, 2, 0, 0, 60, 60>>,
    <<1965, 10, 24, 2, 0, 0, 0, 0>>, <<1966, 3, 20, 2, 0, 0, 60, 60>>,
    <<1966, 10, 23, 2, 0, 0, 0, 0>>, <<1967, 3, 19, 2, 0, 0, 60, 60>>,
    <<1967, 10, 29, 2, 0, 0, 0, 0>>, <<1968, 2, 18, 2, 0, 0, 60, 60>>,
    <<1968, 10, 26, 23, 0, 0, 60, 0>>, <<1971, 10, 31, 2, 0, 0, 0, 0>>,
    <<1972, 3, 19, 2, 0, 0, 60, 60>>, <<1972, 10, 29, 2, 0, 0, 0, 0>>,
    <<1973, 3, 18, 2, 0, 0, 60, 60>>, <<1973, 10, 28, 2, 0, 0, 0, 0>>,
    <<1974, 3, 17, 2, 0, 0, 60, 60>>, <<1974, 10, 27, 2, 0, 0, 0, 0>>,
    <<1975, 3, 16, 2, 0, 0, 60, 60>>, <<1975, 10, 26, 2, 0, 0, 0, 0>>,
    <<1976, 3, 21, 2, 0, 0, 60, 60>>, <<1976, 10, 24, 2, 0, 0, 0, 0>>,
    <<1977, 3, 20, 2, 0, 0, 60, 60>>, <<1977, 10, 23, 2, 0, 0, 0, 0>>,
    <<1978, 3, 19, 2, 0, 0, 60, 60>>, <<1978, 10, 29, 2, 0, 0, 0, 0>>,
    <<1979, 3, 18, 2, 0, 0, 60, 60>>, <<1979, 10, 28, 2, 0, 0, 0, 0>>,
    <<1980, 3, 16, 2, 0, 0, 60, 60>>, <<1980, 10, 26, 2, 0, 0, 0, 0>>,
    <<1981, 3, 29, 1, 0, 0, 60, 60>>, <<1981, 10, 25, 1, 0, 0, 0, 0>>,
    <<1982, 3, 28, 1, 0, 0, 60, 60>>, <<1982, 10, 24, 1, 0, 0, 0, 0>>,
    <<1983, 3, 27, 1, 0, 0, 60, 60>>, <<1983, 10, 23, 1, 0, 0, 0, 0>>,
    <<1984, 3, 25, 1, 0, 0, 60, 60>>, <<1984, 10, 28, 1, 0, 0, 0, 0>>,
    <<1985, 3, 31, 1, 0, 0, 60, 60>>, <<1985, 10, 27, 1, 0, 0, 0, 0>>,
    <<1986, 3, 30, 1, 0, 0, 60, 60>>, <<1986, 10, 26, 1, 0, 0, 0, 0>>,
    <<1987, 3, 29, 1, 0, 0, 60, 60>>, <<1987, 10, 25, 1, 0, 0, 0, 0>>,
    <<1988, 3, 27, 1, 0, 0, 60, 60>>, <<1988, 10, 23, 1, 0, 0, 0, 0>>,
    <<1989, 3, 26, 1, 0, 0, 60, 60>>, <<1989, 10, 29, 1, 0, 0, 0, 0>>,
    <<1990, 3, 25, 1, 0, 0, 60, 60>>, <<1990, 10, 28, 1, 0, 0, 0, 0>>,
    <<1991, 3, 31, 1, 0, 0, 60, 60>>, <<1991, 10, 27, 1, 0, 0, 0, 0>>,
    <<1992, 3, 29, 1, 0, 0, 60, 60>>, <<1992, 10, 25, 1, 0, 0, 0, 0>>,
    <<1993, 3, 28, 1, 0, 0, 60, 60>>, <<1993, 10, 24, 1, 0, 0, 0, 0>>,
    <<1994, 3, 27, 1, 0, 0, 60, 60>>, <<1994, 10, 23, 1, 0, 0, 0, 0>>,
    <<1995, 3, 26, 1, 0, 0, 60, 60>>, <<1995, 10, 22, 1, 0, 0, 0, 0>>,
    <<1996, 3, 31, 1, 0, 0, 60, 60>>, <<1996, 10, 27, 1, 0, 0, 0, 0>>,
    <<1997, 3, 30, 1, 0, 0, 60, 60>>, <<1997, 10, 26, 1, 0, 0, 0, 0>>,
    <<1998, 3, 29, 1, 0, 0, 60, 60>>, <<1998, 10, 25, 1, 0, 0, 0, 0>>,
    <<1999, 3, 28, 1, 0, 0, 60, 60>>, <<1999, 10, 31, 1, 0, 0, 0, 0>>,
    <<2000, 3, 26, 1, 0, 0, 60, 60>>, <<2000, 10, 29, 1, 0, 0, 0, 0>>,
    <<2001, 3, 25, 1, 0, 0, 60, 60>>, <<2001, 10, 28, 1, 0, 0, 0, 0>>,
    <<2002, 3, 31, 1, 0, 0, 60, 60>>, <<2002, 10, 27, 1, 0, 0, 0, 0>>,
    <<2003, 3, 30, 1, 0, 0, 60, 60>>, <<2003, 10, 26, 1, 0, 0, 0, 0>>,
    <<2004, 3, 28, 1, 0, 0, 60, 60>>, <<2004, 10, 31, 1, 0, 0, 0, 0>>,
    <<2005, 3, 27, 1, 0, 0, 60, 60>>, <<2005, 10, 30, 1, 0, 0, 0, 0>>,
    <<2006, 3, 26, 1, 0, 0, 60, 60>>, <<2006, 10, 29, 1, 0, 0, 0, 0>>,
    <<2007, 3, 25, 1, 0, 0, 60, 60>>, <<2007, 10, 28, 1, 0, 0, 0, 0>>,
    <<2008, 3, 30, 1, 0, 0, 60, 60>>, <<2008, 10, 26, 1, 0, 0, 0, 0>>,
    <<2009, 3, 29, 1, 0, 0, 60, 60>>, <<2009, 10, 25, 1, 0, 0, 0, 0>>,
    <<2010, 3, 28, 1, 0, 0, 60, 60>>, <<2010, 10, 31, 1, 0, 0, 0, 0>>,
    <<2011, 3, 27, 1, 0, 0, 60, 60>>, <<2011, 10, 30, 1, 0, 0, 0, 0>>,
    <<2012, 3, 25, 1, 0, 0, 60, 60>>, <<2012, 10, 28, 1, 0, 0, 0, 0>>,
    <<2013, 3, 31, 1, 0, 0, 60, 60>>, <<2013, 10, 27, 1, 0, 0, 0, 0>>,
    <<2014, 3, 30, 1, 0, 0, 60, 60>>, <<2014, 10, 26, 1, 0, 0, 0, 0>>,
    <<2015, 3, 29, 1, 0, 0, 60, 60>>, <<2015, 10, 25, 1, 0, 0, 0, 0>>,
    <<2016, 3, 27, 1, 0, 0, 60, 60>>, <<2016, 10, 30, 1, 0, 0, 0, 0>>,
    <<2017, 3, 26, 1, 0, 0, 60, 60>>, <<2017, 10, 29, 1, 0, 0, 0, 0>>,
    <<2018, 3, 25, 1, 0, 0, 60, 60>>, <<2018, 10, 28, 1, 0, 0, 0, 0>>,
    <<2019, 3, 31, 1, 0, 0, 60, 60>>, <<2019, 10, 27, 1, 0, 0, 0, 0>>,
    <<2020, 3, 29, 1, 0, 0, 60, 60>>, <<2020, 10, 25, 1, 0, 0, 0, 0>>,
    <<2021, 3, 28, 1, 0, 0, 60, 60>>, <<2021, 10, 31, 1, 0, 0, 0, 0>>,
    <<2022, 3, 27, 1, 0, 0, 60, 60>>, <<2022, 10, 30, 1, 0, 0, 0, 0>>,
    <<2023, 3, 26, 1, 0, 0, 60, 60>>, <<2023, 10, 29, 1, 0, 0, 0, 0>>,
    <<2024, 3, 31, 1, 0, 0, 60, 60>>, <<2024, 10, 27, 1, 0, 0, 0, 0>>,
    <<2025, 3, 30, 1, 0, 0, 60, 60>>, <<2025, 10, 26, 1, 0, 0, 0, 0>>,
    <<2026, 3, 29, 1, 0, 0, 60, 60>>, <<2026, 10, 25, 1, 0, 0, 0, 0>>,
    <<2027, 3, 28, 1, 0, 0, 60, 60>>, <<2027, 10, 31, 1, 0, 0, 0, 0>>,
    <<2028, 3, 26, 1, 0, 0, 60, 60>>, <<2028, 10, 29, 1, 0, 0, 0, 0>>,
    <<2029, 3, 25, 1, 0, 0, 60, 60>>, <<2029, 10, 28, 1, 0, 0, 0, 0>>,
    <<2030, 3, 31, 1, 0, 0, 60, 60>>, <<2030, 10, 27, 1, 0, 0, 0, 0>>,
    <<2031, 3, 30, 1, 0, 0, 60, 60>>, <<2031, 10, 26, 1, 0, 0, 0, 0>>,
    <<2032, 3, 28, 1, 0, 0, 60, 60>>, <<2032, 10, 31, 1, 0, 0, 0, 0>>,
    <<2033, 3, 27, 1, 0, 0, 60, 60>>, <<2033, 10, 30, 1, 0, 0, 0, 0>>,
    <<2034, 3, 26, 1, 0, 0, 60, 60>>, <<2034, 10, 29, 1, 0, 0, 0, 0>>,
    <<2035, 3, 25, 1, 0, 0, 60, 60>>, <<2035, 10, 28, 1, 0, 0, 0, 0>>,
    <<2036, 3, 30, 1, 0, 0, 60, 60>>, <<2036, 10, 26, 1, 0, 0, 0, 0>>,
    <<2037, 3, 29, 1, 0, 0, 60, 60>>, <<2037, 10, 25, 1, 0, 0, 0, 0>>
    >>

\* minutes since the start of the year
MinuteOfYear(y, mo, d, h, mi) ==
    (DaysBeforeMonth(y, mo) + d - 1) * 1440 + h * 60 + mi

\* <<year, minute of the year, second>> of transition i
TransitionKeys ==
    [i \in DOMAIN LondonTransitions |->
        LET r == LondonTransitions[i]
        IN <<r[1], MinuteOfYear(r[1], r[2], r[3], r[4], r[5]), r[6]>>]

\* <<year, minute of the year, second>> of the time v
TimeKey(v) == <<v.year, MinuteOfYear(v.year, v.month, v.day, v.hour, v.minute), v.second>>

\* the time with key k is at or before the time with key t
KeyReached(k, t) ==
    \/ k[1] < t[1]
    \/ k[1] = t[1] /\ k[2] < t[2]
    \/ k[1] = t[1] /\ k[2] = t[2] /\ k[3] <= t[3]

\* transition i is at or before UTC time v
TransitionReached(i, v) == KeyReached(TransitionKeys[i], TimeKey(v))

\* local.fromutc: the tzinfo in force at UTC time v, the one of the last
\* transition at or before v (bisect_right)
TzInfoAt(v) ==
    LET t == TimeKey(v)
        n == Cardinality({i \in DOMAIN LondonTransitions : KeyReached(TransitionKeys[i], t)})
    IN IF n = 0 THEN LocalMeanTime
       ELSE <<LondonTransitions[n][7], LondonTransitions[n][8]>>

\* the offset (minutes east of UTC) in force at UTC time v
UtcOffsetAt(v) == TzInfoAt(v)[1]

\* bool(tzinfo._dst)
IsDst(tzinfo) == tzinfo[2] # 0

\* the tzinfos localize() tries, one in force a day before dt and one a day
\* after
CandidateTzInfos(v) == {TzInfoAt(AddMinutes(v, 0 - 1440)), TzInfoAt(AddMinutes(v, 1440))}

\* tzinfo.normalize(dt.replace(tzinfo=tzinfo)): the tzinfo in force at
\* dt - tzinfo's offset
NormalizedTzInfo(v, tzinfo) == TzInfoAt(AddMinutes(v, 0 - tzinfo[1]))

\* the tzinfos of the datetimes localize() keeps: the normalized ones whose
\* wall clock still reads dt
PossibleTzInfos(v) ==
    {NormalizedTzInfo(v, tzinfo) :
        tzinfo \in {c \in CandidateTzInfos(v) : NormalizedTzInfo(v, c)[1] = c[1]}}

\* the least element of a set of offsets: the latest time in UTC
LeastOffset(offsets) == CHOOSE off \in offsets : \A o \in offsets : off <= o

\* localize() as a fixed-offset zone would do it: the offset is never summer time
LocalizeOffsetNoDst(v) == 0

\* local.localize(dt) with is_dst=False: the offset of the tzinfo attached.
\* The candidates are a set of aware datetimes, equal when their offsets are.
RECURSIVE LocalizeOffset(_)
LocalizeOffset(v) ==
    LET possible == PossibleTzInfos(v)
        offsets == {tzinfo[1] : tzinfo \in possible}
        filtered == {tzinfo[1] : tzinfo \in {t \in possible : IsDst(t) = FALSE}}
    IN IF Cardinality(offsets) = 1 THEN LeastOffset(offsets)
       ELSE IF offsets = {}
            \* a time that never happened: localize(dt - 6h) + 6h
            THEN LocalizeOffset(AddMinutes(v, 0 - 360))
       ELSE IF Cardinality(filtered) = 1 THEN LeastOffset(filtered)
       ELSE IF filtered = {} THEN LeastOffset(offsets)
       ELSE LeastOffset(filtered)

\* dt.replace(tzinfo=None)
StripTz(v) == [v EXCEPT !.tzinfo = "None", !.utcoffset = 0]

\* the datetime arithmetic of astimezone, then replace(tzinfo=None)
Shifted(v, delta) ==
    LET r == AddMinutes(v, delta)
    IN IF r.kind = "raise" THEN r ELSE StripTz(r)

\* to_local_time without the test of the tag: any tagged instant is read as UTC
to_local_time_any_zone(v) ==
    IF v.kind # "datetime" THEN v
    ELSE Shifted(v, UtcOffsetAt(v))

to_local_time(v) ==
    IF v.kind # "datetime" THEN v
    ELSE IF v.tzinfo = "None" \/ v.tzinfo = "UTC"
         THEN Shifted(v, UtcOffsetAt(v))
    ELSE RaiseV("Exception: Not a UTC time")

to_utc_time(v) ==
    IF v.kind # "datetime" THEN v
    ELSE IF v.tzinfo = "None"
         \* localize() first computes dt - 1 day and dt + 1 day
         THEN IF AddMinutes(v, 0 - 1440).kind = "raise" \/ AddMinutes(v, 1440).kind = "raise"
              THEN OverflowError
              ELSE Shifted(v, 0 - LocalizeOffset(v))
    ELSE IF v.tzinfo = LocalZone
         THEN Shifted(v, 0 - v.utcoffset)
    ELSE RaiseV("Exception: Not a local time")

-----------------------------------------------------------------------------
(* strftime.  The C library decides which years it renders and how:       *)
(* min_year is 1 where every year is rendered and 1900 where earlier years *)
(* are refused with ValueError; pad_year says whether %Y pads a year below *)
(* 1000 with zeros to four digits or renders its digits alone.             *)

ValueError == RaiseV("ValueError")

Pad2(n) == IF n < 10 THEN "0" \o ToString(n) ELSE ToString(n)

Pad4(n) ==
    IF n < 10 THEN "000" \o ToString(n)
    ELSE IF n < 100 THEN "00" \o ToString(n)
    ELSE IF n < 1000 THEN "0" \o ToString(n)
    ELSE ToString(n)

\* %A
DayName(w) ==
    <<"Monday", "Tuesday", "Wednesday", "Thursday", "Friday", "Saturday", "Sunday">>[w + 1]

\* %B
MonthName(mo) ==
    <<"January", "February", "March", "April", "May", "June", "July", "August",
      "September", "October", "November", "December">>[mo]

\* %Y
YearText(y, pad_year) == IF pad_year THEN Pad4(y) ELSE ToString(y)

\* %d/%m/%Y
ShortDate(v, pad_year) ==
    Pad2(v.day) \o "/" \o Pad2(v.month) \o "/" \o YearText(v.year, pad_year)

\* %d %B %Y
LongDate(v, pad_year) ==
    Pad2(v.day) \o " " \o MonthName(v.month) \o " " \o YearText(v.year, pad_year)

\* %H:%M:%S
ClockTime(v) == Pad2(v.hour) \o ":" \o Pad2(v.minute) \o ":" \o Pad2(v.second)

Strftime(v, fmt, min_year, pad_year) ==
    IF v.year < min_year THEN ValueError
    ELSE IF fmt = "%d/%m/%Y %H:%M:%S"
         THEN StrV(ShortDate(v, pad_year) \o " " \o ClockTime(v))
    ELSE IF fmt = "%A %d %B %Y %H:%M:%S"
         THEN StrV(DayName(Weekday(v)) \o " " \o LongDate(v, pad_year)
                   \o " " \o ClockTime(v))
    ELSE IF fmt = "%d/%m/%Y" THEN StrV(ShortDate(v, pad_year))
    ELSE IF fmt = "%A %d %B %Y"
         THEN StrV(DayName(Weekday(v)) \o " " \o LongDate(v, pad_year))
    ELSE StrV(LongDate(v, pad_year))

\* the body shared by the formatters below the "if datetime:" test
Render(v, convert_to_local, fmt, min_year, pad_year) ==
    IF convert_to_local
    THEN LET local_datetime == to_local_time(v)
         IN IF local_datetime.kind = "raise" THEN local_datetime
            ELSE Strftime(local_datetime, fmt, min_year, pad_year)
    ELSE Strftime(v, fmt, min_year, pad_year)

\* a formatter without the except clause
CatchNothing(outcome) == outcome

\* try: ... except ValueError: log.warning(...); return '????'
CatchValueError(outcome) == IF outcome = ValueError THEN StrV("????") ELSE outcome

\* the warnings the except clause logs
Warnings(outcome) == IF outcome = ValueError THEN <<"Invalid date">> ELSE <<>>

format_datetime(v, convert_to_local, min_year, pad_year) ==
    IF v.kind = "None" THEN StrV("")
    ELSE Render(v, convert_to_local, "%d/%m/%Y %H:%M:%S", min_year, pad_year)

format_datetime_long(v, convert_to_local, min_year, pad_year) ==
    IF v.kind = "None" THEN StrV("")
    ELSE Render(v, convert_to_local, "%A %d %B %Y %H:%M:%S", min_year, pad_year)

format_date(v, convert_to_local, min_year, pad_year) ==
    IF v.kind = "None" THEN StrV("")
    ELSE CatchValueError(Render(v, convert_to_local, "%d/%m/%Y", min_year, pad_year))

format_date_long(v, convert_to_local, min_year, pad_year) ==
    IF v.kind = "None" THEN StrV("")
    ELSE CatchValueError(Render(v, convert_to_local, "%A %d %B %Y", min_year, pad_year))

format_date_long_no_day(v, convert_to_local, min_year, pad_year) ==
    IF v.kind = "None" THEN StrV("")
    ELSE CatchValueError(Render(v, convert_to_local, "%d %B %Y", min_year, pad_year))

\* what the three date formatters log
format_date_log(v, convert_to_local, fmt, min_year, pad_year) ==
    IF v.kind = "None" THEN <<>>
    ELSE Warnings(Render(v, convert_to_local, fmt, min_year, pad_year))

-----------------------------------------------------------------------------
(* add_working_days                                                        *)

\* the inner test with Saturdays never skipped
IsSkippedSundayOnly(date, include_saturday) == Weekday(date) = 6

\* the test of the inner while loop
IsSkipped(date, include_saturday) ==
    Weekday(date) = 6 \/ (~include_saturday /\ Weekday(date) = 5)

RECURSIVE SkipDays(_, _)
SkipDays(date, include_saturday) ==
    IF date.kind = "raise" THEN date
    ELSE IF IsSkipped(date, include_saturday)
         THEN SkipDays(NextDay(date), include_saturday)
    ELSE date

\* for i in range(num_days), from iteration i on
RECURSIVE WorkingDaysLoop(_, _, _, _)
WorkingDaysLoop(i, num_days, date, include_saturday) ==
    IF i >= num_days \/ date.kind = "raise" THEN date
    ELSE WorkingDaysLoop(i + 1, num_days,
                         SkipDays(NextDay(date), include_saturday), include_saturday)

\* if date is None: date = datetime.date.today()
DateOrToday(date, date_today) == IF date = NoneV THEN date_today ELSE date

\* add_working_days moving the start onto a working day before counting
add_working_days_from_working_day(num_days, date, include_saturday, date_today) ==
    WorkingDaysLoop(0, num_days,
                    SkipDays(DateOrToday(date, date_today), include_saturday),
                    include_saturday)

\* date_today is what datetime.date.today() returns during the call
add_working_days(num_days, date, include_saturday, date_today) ==
    WorkingDaysLoop(0, num_days, DateOrToday(date, date_today), include_saturday)

-----------------------------------------------------------------------------
(* add_months and add_months_to_date                                       *)

\* while new_month < 1
RECURSIVE WhileBelow(_, _)
WhileBelow(new_month, years) ==
    IF new_month < 1 THEN WhileBelow(new_month + 12, years - 1)
    ELSE <<new_month, years>>

\* the second loop without its year carry
RECURSIVE WhileAboveNoCarry(_, _)
WhileAboveNoCarry(new_month, years) ==
    IF new_month > 12 THEN WhileAboveNoCarry(new_month - 12, years)
    ELSE <<new_month, years>>

\* while new_month > 12
RECURSIVE WhileAbove(_, _)
WhileAbove(new_month, years) ==
    IF new_month > 12 THEN WhileAbove(new_month - 12, years + 1)
    ELSE <<new_month, years>>

\* <<new_month, years>> after both loops
NormaliseMonth(month, months) ==
    LET below == WhileBelow(month + months, 0)
    IN WhileAbove(below[1], below[2])

\* the constructors accept years 1..9999 and the days of the month
ValidDate(y, mo, d) ==
    y \in 1..9999 /\ mo \in 1..12 /\ d \in 1..DaysInMonth(y, mo)

\* datetime.datetime(year, month, day, hour, minute, second)
MakeDateTime(y, mo, d, h, mi, s) ==
    IF ValidDate(y, mo, d) THEN DateTimeV(y, mo, d, h, mi, s, 0, "None", 0)
    ELSE ValueError

\* datetime.date(year, month, day)
MakeDate(y, mo, d) == IF ValidDate(y, mo, d) THEN DateV(y, mo, d) ELSE ValueError

\* the rollover staying in the target month
SameMonth(year, new_month) == <<year, new_month>>

\* <<year, new_month>> of the first day of the next month
NextMonth(year, new_month) ==
    IF new_month + 1 > 12 THEN <<year + 1, new_month + 1 - 12>>
    ELSE <<year, new_month + 1>>

\* the last day with February always 28 days long
LastDayIgnoringLeap(year, new_month) ==
    IF new_month = 2 THEN 28 ELSE DaysInMonth(year, new_month)

\* calendar.monthrange(year, new_month)[1]
LastDayOfMonth(year, new_month) == DaysInMonth(year, new_month)

add_months(months, timestamp) ==
    LET nm == NormaliseMonth(timestamp.month, months)
        new_month == nm[1]
        year == timestamp.year + nm[2]
        same_day == MakeDateTime(year, new_month, timestamp.day,
                                 timestamp.hour, timestamp.minute, timestamp.second)
        next == NextMonth(year, new_month)
    IN IF same_day # ValueError THEN same_day
       ELSE IF months > 0
            THEN MakeDateTime(next[1], next[2], 1,
                              timestamp.hour, timestamp.minute, timestamp.second)
       ELSE MakeDateTime(year, new_month, LastDayOfMonth(year, new_month),
                         timestamp.hour, timestamp.minute, timestamp.second)

add_months_to_date(months, date) ==
    LET nm == NormaliseMonth(date.month, months)
        new_month == nm[1]
        year == date.year + nm[2]
        same_day == MakeDate(year, new_month, date.day)
        next == NextMonth(year, new_month)
    IN IF same_day # ValueError THEN same_day
       ELSE IF months > 0
            THEN MakeDateTime(next[1], next[2], 1, 0, 0, 0)
       ELSE MakeDateTime(year, new_month, LastDayOfMonth(year, new_month), 0, 0, 0)

-----------------------------------------------------------------------------
(* The arguments the calls are explored with.                              *)

MonthDays == {1, 15, 28, 29, 30, 31}

\* every date of the explored years
AllDates ==
    {DateV(y, mo, d) : y \in Years, mo \in 1..12, d \in 1..31} \ {DateV(0, 0, 0)}

CalendarDates == {v \in AllDates : v.day <= DaysInMonth(v.year, v.month)}

MonthEndDates == {v \in CalendarDates : v.day \in MonthDays}

TimesOfDay == {<<0, 0, 0, 0>>, <<23, 59, 59, 999999>>}

Timestamps ==
    {DateTimeV(v.year, v.month, v.day, t[1], t[2], t[3], t[4], "None", 0) :
        v \in MonthEndDates, t \in TimesOfDay}

\* the tzinfo a datetime may carry: none, pytz.utc, Europe/London (GMT or BST),
\* and a third zone
ZoneTags == {<<"None", 0>>, <<"UTC", 0>>, <<LocalZone, 0>>, <<LocalZone, 60>>,
             <<"US/Eastern", 0 - 300>>}

\* days around the two transitions of each year, and days where the offset
\* carries into the next day, month and year
ClockDays ==
    {v \in CalendarDates :
        \/ v.month \in {3, 10} /\ v.day >= 24
        \/ <<v.month, v.day>> \in {<<1, 1>>, <<6, 30>>, <<12, 31>>}}

ClockTimes == {<<h, mi, 0, 0>> : h \in {0, 1, 2, 3, 23}, mi \in {0, 30}}
                  \cup {<<1, 59, 59, 999999>>}

\* instants of the zone's history: local mean time and its end in 1901,
\* double summer time, the standard time at +1 of 1968-71 and its two ends,
\* the last year of the earlier October rule, and the end of the table in
\* 2037 with the summers after it
HistoricInstants ==
    {DateTimeV(t[1], t[2], t[3], t[4], t[5], t[6], 0, z[1], z[2]) :
        t \in {<<1800, 1, 15, 12, 0, 0>>, <<1847, 12, 1, 0, 1, 15>>,
               <<1901, 12, 13, 20, 44, 51>>, <<1901, 12, 13, 20, 44, 52>>,
               <<1901, 12, 13, 20, 45, 10>>, <<1901, 12, 13, 20, 45, 51>>,
               <<1901, 12, 13, 20, 45, 52>>, <<1901, 12, 13, 20, 46, 30>>,
               <<2037, 7, 1, 12, 0, 0>>, <<2037, 10, 25, 0, 30, 0>>,
               <<2037, 10, 25, 1, 30, 0>>, <<2038, 3, 28, 1, 30, 0>>,
               <<2038, 7, 1, 12, 0, 0>>, <<2040, 7, 1, 12, 0, 0>>,
               <<1941, 1, 15, 12, 0, 0>>, <<1941, 5, 4, 1, 30, 0>>,
               <<1941, 5, 4, 2, 30, 0>>, <<1941, 7, 15, 12, 0, 0>>,
               <<1941, 8, 10, 0, 30, 0>>, <<1941, 8, 10, 1, 30, 0>>,
               <<1941, 8, 10, 2, 30, 0>>,
               <<1968, 2, 18, 2, 30, 0>>, <<1968, 10, 27, 0, 30, 0>>,
               <<1970, 1, 15, 12, 0, 0>>,
               <<1971, 10, 31, 1, 30, 0>>, <<1971, 10, 31, 2, 30, 0>>,
               <<1995, 10, 22, 0, 30, 0>>, <<1995, 10, 22, 1, 30, 0>>,
               <<1995, 10, 25, 12, 0, 0>>},
        z \in {<<"None", 0>>, <<"UTC", 0>>}}

Instants ==
    {DateTimeV(v.year, v.month, v.day, t[1], t[2], t[3], t[4], z[1], z[2]) :
        v \in ClockDays, t \in ClockTimes, z \in ZoneTags}

ZoneInputs == Instants \cup HistoricInstants \cup {DateV(FirstYear, 3, 31), NoneV}

\* a year below 1000 and a year before 1900 beside a current one, as dates
\* and as instants
FormatInputs ==
    {NoneV, DateV(5, 1, 1), DateV(999, 1, 1), DateV(1899, 12, 31), DateV(FirstYear, 7, 1)}
    \cup {DateTimeV(y, md[1], md[2], md[3], 5, 9, 0, z[1], z[2]) :
            y \in {999, 1899, FirstYear}, md \in {<<1, 1, 0>>, <<6, 30, 23>>},
            z \in ZoneTags}

\* the dates the clock may show when add_working_days reads it: a week
\* running into the next year
ClockDates == {DateV(FirstYear, 12, d) : d \in 25..31}

-----------------------------------------------------------------------------
(* The state machine: one action per function, taken from the idle state  *)
(* and recording the call.                                                 *)

Init ==
    /\ pc = "init"
    /\ num = 0
    /\ time_in = NoneV
    /\ flag = FALSE
    /\ result = NoneV
    /\ log = <<>>
    /\ today = NoneV
    /\ strftime_min_year \in {1, 1900}
    /\ strftime_pad_year \in BOOLEAN

ToLocalTime ==
    /\ pc = "init"
    /\ \E v \in ZoneInputs :
           /\ pc' = "to_local_time"
           /\ time_in' = v
           /\ result' = to_local_time(v)
           /\ num' = 0 /\ flag' = FALSE /\ log' = <<>>
           /\ UNCHANGED <<today, platform>>

ToUtcTime ==
    /\ pc = "init"
    /\ \E v \in ZoneInputs :
           /\ pc' = "to_utc_time"
           /\ time_in' = v
           /\ result' = to_utc_time(v)
           /\ num' = 0 /\ flag' = FALSE /\ log' = <<>>
           /\ UNCHANGED <<today, platform>>

\* to_utc_time(to_local_time(time_in)): the second call of the round trip
ToLocalThenUtc ==
    /\ pc = "to_local_time"
    /\ result.kind = "datetime"
    /\ pc' = "to_utc_time(to_local_time)"
    /\ result' = to_utc_time(result)
    /\ UNCHANGED <<num, time_in, flag, log, today, platform>>

\* to_local_time(to_utc_time(time_in)): the second call of the round trip
ToUtcThenLocal ==
    /\ pc = "to_utc_time"
    /\ result.kind = "datetime"
    /\ pc' = "to_local_time(to_utc_time)"
    /\ result' = to_local_time(result)
    /\ UNCHANGED <<num, time_in, flag, log, today, platform>>

FormatDatetime ==
    /\ pc = "init"
    /\ \E v \in FormatInputs, convert_to_local \in BOOLEAN :
           /\ pc' = "format_datetime"
           /\ time_in' = v
           /\ flag' = convert_to_local
           /\ result' = format_datetime(v, convert_to_local, strftime_min_year,
                                  strftime_pad_year)
           /\ num' = 0 /\ log' = <<>>
           /\ UNCHANGED <<today, platform>>

FormatDatetimeLong ==
    /\ pc = "init"
    /\ \E v \in FormatInputs, convert_to_local \in BOOLEAN :
           /\ pc' = "format_datetime_long"
           /\ time_in' = v
           /\ flag' = convert_to_local
           /\ result' = format_datetime_long(v, convert_to_local, strftime_min_year,
                                  strftime_pad_year)
           /\ num' = 0 /\ log' = <<>>
           /\ UNCHANGED <<today, platform>>

FormatDate ==
    /\ pc = "init"
    /\ \E v \in FormatInputs, convert_to_local \in BOOLEAN :
           /\ pc' = "format_date"
           /\ time_in' = v
           /\ flag' = convert_to_local
           /\ result' = format_date(v, convert_to_local, strftime_min_year,
                                  strftime_pad_year)
           /\ log' = format_date_log(v, convert_to_local, "%d/%m/%Y", strftime_min_year,
                                  strftime_pad_year)
           /\ num' = 0
           /\ UNCHANGED <<today, platform>>

FormatDateLong ==
    /\ pc = "init"
    /\ \E v \in FormatInputs, convert_to_local \in BOOLEAN :
           /\ pc' = "format_date_long"
           /\ time_in' = v
           /\ flag' = convert_to_local
           /\ result' = format_date_long(v, convert_to_local, strftime_min_year,
                                  strftime_pad_year)
           /\ log' = format_date_log(v, convert_to_local, "%A %d %B %Y", strftime_min_year,
                                  strftime_pad_year)
           /\ num' = 0
           /\ UNCHANGED <<today, platform>>

FormatDateLongNoDay ==
    /\ pc = "init"
    /\ \E v \in FormatInputs, convert_to_local \in BOOLEAN :
           /\ pc' = "format_date_long_no_day"
           /\ time_in' = v
           /\ flag' = convert_to_local
           /\ result' = format_date_long_no_day(v, convert_to_local, strftime_min_year,
                                  strftime_pad_year)
           /\ log' = format_date_log(v, convert_to_local, "%d %B %Y", strftime_min_year,
                                  strftime_pad_year)
           /\ num' = 0
           /\ UNCHANGED <<today, platform>>

AddWorkingDays ==
    /\ pc = "init"
    /\ \E num_days \in (0 - MaxBackDays)..MaxNumDays, include_saturday \in BOOLEAN :
           /\ \/ \E date \in CalendarDates :
                     /\ time_in' = date
                     /\ today' = NoneV
                     /\ result' = add_working_days(num_days, date, include_saturday,
                                                   NoneV)
              \* date omitted or None: the clock is read
              \/ \E date_today \in ClockDates :
                     /\ time_in' = NoneV
                     /\ today' = date_today
                     /\ result' = add_working_days(num_days, NoneV, include_saturday,
                                                   date_today)
           /\ pc' = "add_working_days"
           /\ num' = num_days
           /\ flag' = include_saturday
           /\ log' = <<>>
           /\ UNCHANGED platform

AddMonths ==
    /\ pc = "init"
    /\ \E months \in (0 - MaxMonths)..MaxMonths, timestamp \in Timestamps :
           /\ pc' = "add_months"
           /\ num' = months
           /\ time_in' = timestamp
           /\ result' = add_months(months, timestamp)
           /\ flag' = FALSE /\ log' = <<>>
           /\ UNCHANGED <<today, platform>>

AddMonthsToDate ==
    /\ pc = "init"
    /\ \E months \in (0 - MaxMonths)..MaxMonths, date \in MonthEndDates :
           /\ pc' = "add_months_to_date"
           /\ num' = months
           /\ time_in' = date
           /\ result' = add_months_to_date(months, date)
           /\ flag' = FALSE /\ log' = <<>>
           /\ UNCHANGED <<today, platform>>

\* the call returns to its caller; nothing of it is kept
Return ==
    /\ pc # "init"
    /\ pc' = "init"
    /\ num' = 0
    /\ time_in' = NoneV
    /\ flag' = FALSE
    /\ result' = NoneV
    /\ log' = <<>>
    /\ today' = NoneV
    /\ UNCHANGED platform

Next ==
    \/ ToLocalTime
    \/ ToUtcTime
    \/ ToLocalThenUtc
    \/ ToUtcThenLocal
    \/ FormatDatetime
    \/ FormatDatetimeLong
    \/ FormatDate
    \/ FormatDateLong
    \/ FormatDateLongNoDay
    \/ AddWorkingDays
    \/ AddMonths
    \/ AddMonthsToDate
    \/ Return

Spec == Init /\ [][Next]_vars

-----------------------------------------------------------------------------
(* Vocabulary of the properties, stated on the recorded call.              *)

MonthCall == pc \in {"add_months", "add_months_to_date"}

\* months since year 0 of the month n months from the argument's month
TargetIndex == 12 * time_in.year + (time_in.month - 1) + num

TargetYear == TargetIndex \div 12

TargetMonth == (TargetIndex % 12) + 1

\* the last day of the target month, from the calendar rule
TargetLastDay ==
    IF TargetMonth = 2
    THEN (IF (TargetYear % 4 = 0) /\ ((TargetYear % 100 # 0) \/ (TargetYear % 400 = 0))
          THEN 29 ELSE 28)
    ELSE IF TargetMonth \in {4, 6, 9, 11} THEN 30 ELSE 31

\* the argument's day-of-month does not exist in the target month
DayMissing == time_in.day > TargetLastDay

IsCalendarValue(v) == v.kind \in {"date", "datetime"}

\* a working day, by its ordinal
IsWorkingOrdinal(o, include_saturday) ==
    LET w == (o + 6) % 7 IN w # 6 /\ (include_saturday \/ w # 5)

\* the date add_working_days counts from: the one given, or the clock's
StartDate == IF time_in = NoneV THEN today ELSE time_in

\* the working days d with StartDate < d <= result
WorkingDaysPassed ==
    {o \in (ToOrdinal(StartDate) + 1)..ToOrdinal(result) : IsWorkingOrdinal(o, flag)}

\* the offsets the zone has had
ZoneOffsets == {0 - 1, 0, 60, 120}

\* the offsets under which a local wall clock reading occurs: none in a gap,
\* two in an overlap
ValidOffsets(v) == {off \in ZoneOffsets : UtcOffsetAt(AddMinutes(v, 0 - off)) = off}

InGap(v) == ValidOffsets(v) = {}

InOverlap(v) == Cardinality(ValidOffsets(v)) = 2

IsNaiveInstant(v) == v.kind = "datetime" /\ v.tzinfo = "None"

\* the value handed to strftime by the formatter that was called
Rendered == IF flag THEN to_local_time(time_in) ELSE time_in

\* the formatter's strftime call raised ValueError
RenderingFailed ==
    /\ time_in.kind # "None"
    /\ Rendered.kind # "raise"
    /\ Rendered.year < strftime_min_year

DateFormatters == {"format_date", "format_date_long", "format_date_long_no_day"}

-----------------------------------------------------------------------------
(* C1: adding n > 0 months when the day-of-month does not exist in the     *)
(* target month returns the 1st of the month after the target month, never *)
(* a day inside the target month.                                          *)
C1_ForwardRollover ==
    (MonthCall /\ num > 0 /\ DayMissing) =>
        /\ IsCalendarValue(result)
        /\ result.day = 1
        /\ result.month \in 1..12
        /\ 12 * result.year + (result.month - 1) = TargetIndex + 1

\* add_months(1, 2024-01-30) is 2024-03-01
C1_Witness ==
    /\ pc = "add_months" /\ num = 1
    /\ time_in.year = 2024 /\ time_in.month = 1 /\ time_in.day = 30
    /\ result.year = 2024 /\ result.month = 3 /\ result.day = 1

(* C2: subtracting months (n < 0) when the day-of-month does not exist in  *)
(* the target month returns the last valid day of that target month and    *)
(* year.                                                                   *)
C2_BackwardClamp ==
    (MonthCall /\ num < 0 /\ DayMissing) =>
        /\ IsCalendarValue(result)
        /\ result.year = TargetYear
        /\ result.month = TargetMonth
        /\ result.day = TargetLastDay

\* add_months(-1, 2024-03-30) is 2024-02-29
C2_Witness ==
    /\ pc = "add_months" /\ num = 0 - 1
    /\ time_in.year = 2024 /\ time_in.month = 3 /\ time_in.day = 30
    /\ result.year = 2024 /\ result.month = 2 /\ result.day = 29

(* C3: add_months_to_date returns a date with no time-of-day component in  *)
(* all three outcomes (same day, forward rollover, backward clamp).        *)
C3_ReturnsCalendarDate ==
    pc = "add_months_to_date" => result.kind = "date"

(* C4: add_months preserves the time-of-day of its argument: hour, minute, *)
(* second and sub-second part of the result equal those of the input.      *)
C4_TimeOfDayPreserved ==
    pc = "add_months" =>
        /\ result.kind = "datetime"
        /\ result.hour = time_in.hour
        /\ result.minute = time_in.minute
        /\ result.second = time_in.second
        /\ result.microsecond = time_in.microsecond

(* C5: for n >= 0 the result r of add_working_days has exactly n working   *)
(* days d with date < d <= r; for n >= 1 r is itself a working day; five   *)
(* working days without Saturdays from a Monday is the Monday a week on.   *)
C5_ExactlyNWorkingDays ==
    (pc = "add_working_days" /\ num >= 0) =>
        /\ result.kind = "date"
        /\ ToOrdinal(result) >= ToOrdinal(StartDate)
        /\ Cardinality(WorkingDaysPassed) = num
        /\ (num >= 1 => IsWorkingOrdinal(ToOrdinal(result), flag))
        /\ ((num = 5 /\ ~flag /\ Weekday(StartDate) = 0) =>
                ToOrdinal(result) = ToOrdinal(StartDate) + 7)

\* add_working_days(5, 2024-01-01) is 2024-01-08
C5_Witness ==
    /\ pc = "add_working_days" /\ num = 5 /\ ~flag
    /\ time_in = DateV(2024, 1, 1)
    /\ result = DateV(2024, 1, 8)

(* C6: for n <= 0 add_working_days returns the given date unchanged (the   *)
(* clock's date when none is given), also when that date is a Saturday or  *)
(* a Sunday.                                                               *)
C6_NonPositiveIsNoOp ==
    (pc = "add_working_days" /\ num <= 0) => result = StartDate

\* a negative count on a Sunday
C6_Witness ==
    /\ pc = "add_working_days" /\ num < 0
    /\ time_in.kind = "date"
    /\ Weekday(time_in) = 6
    /\ result = time_in

(* C7: to_local_time accepts exactly the untagged and the UTC-tagged       *)
(* instants, to_utc_time exactly the untagged and the Local-tagged ones;   *)
(* every other tag raises the invalid-zone exception, and every successful *)
(* result is untagged.                                                     *)
C7_ZoneAcceptance ==
    /\ (pc = "to_local_time" /\ time_in.kind = "datetime") =>
          IF time_in.tzinfo \in {"None", "UTC"}
          THEN IsNaiveInstant(result)
          ELSE result = RaiseV("Exception: Not a UTC time")
    /\ (pc = "to_utc_time" /\ time_in.kind = "datetime") =>
          IF time_in.tzinfo \in {"None", "Europe/London"}
          THEN IsNaiveInstant(result)
          ELSE result = RaiseV("Exception: Not a local time")

\* a Local-tagged instant is refused by to_local_time
C7_Witness ==
    /\ pc = "to_local_time"
    /\ time_in.kind = "datetime" /\ time_in.tzinfo = "Europe/London"
    /\ result.kind = "raise"

(* C8: outside gaps and overlaps the converters are mutual inverses on     *)
(* naive instants: to_utc_time(to_local_time(I)) = I when the local time   *)
(* of I is not in an overlap, and to_local_time(to_utc_time(I)) = I when I *)
(* is in neither a gap nor an overlap.                                     *)
C8_RoundTrip ==
    /\ (/\ pc = "to_utc_time(to_local_time)"
        /\ IsNaiveInstant(time_in)
        /\ ~InOverlap(to_local_time(time_in))) => result = time_in
    /\ (/\ pc = "to_local_time(to_utc_time)"
        /\ IsNaiveInstant(time_in)
        /\ ~InGap(time_in) /\ ~InOverlap(time_in)) => result = time_in

\* a summer instant whose local time is on the next day comes back
C8_Witness ==
    /\ pc = "to_utc_time(to_local_time)"
    /\ IsNaiveInstant(time_in)
    /\ time_in.month = 6 /\ time_in.day = 30 /\ time_in.hour = 23
    /\ result = time_in

(* C9 as stated: a rendering failure never makes a formatter raise, for    *)
(* format_date, format_date_long, format_date_long_no_day and              *)
(* format_datetime_long: the placeholder is returned and a warning logged. *)
C9_NoFormatterRaises ==
    (pc \in DateFormatters \cup {"format_datetime_long"} /\ RenderingFailed) =>
        result = StrV("????") /\ log = <<"Invalid date">>

(* C9 amended: a rendering failure is recovered by format_date,            *)
(* format_date_long and format_date_long_no_day only (placeholder and      *)
(* warning); format_datetime_long has no recovery and the ValueError       *)
(* reaches the caller.                                                     *)
C9_DateFormattersRecover ==
    /\ (pc \in DateFormatters /\ RenderingFailed) =>
          result = StrV("????") /\ log = <<"Invalid date">>
    /\ (pc = "format_datetime_long" /\ RenderingFailed) =>
          result = ValueError /\ log = <<>>

\* a date before 1900 where strftime refuses it, converted to local first
C9_Witness ==
    /\ pc = "format_date_long" /\ flag
    /\ time_in.kind = "datetime" /\ time_in.year = 1899
    /\ RenderingFailed
    /\ result.text = "????"

(* C10: when the day-of-month exists in the target month, the result has   *)
(* the same day, a month in 1..12 and                                      *)
(* 12*year' + (month' - 1) = 12*year + (month - 1) + n; n = 0 returns the  *)
(* same year, month and day.                                               *)
C10_MonthYearCarry ==
    (MonthCall /\ ~DayMissing) =>
        /\ IsCalendarValue(result)
        /\ result.day = time_in.day
        /\ result.month \in 1..12
        /\ 12 * result.year + (result.month - 1) = TargetIndex
        /\ (num = 0 => /\ result.year = time_in.year
                       /\ result.month = time_in.month)

\* more than twelve months back: the year loop runs twice
C10_Witness ==
    /\ pc = "add_months_to_date" /\ num < 0 - 12
    /\ result.kind = "date"
    /\ result.year = time_in.year - 2
    /\ result.day = time_in.day

====
